---------------------------- MODULE Spec2Model ----------------------------
(***************************************************************************)
(* Model of run_script's staging and invocation pipeline (src/src/runner.rs).*)
(*                                                                         *)
(* Text is a sequence of one-character strings.  The pipeline of one       *)
(* invocation is modify_script -> create_script_file -> spawn -> (for run) *)
(* wait_with_output -> delete_file.  Invocations share only the file       *)
(* system.  The operating system's answers (current_dir, create_dir_all,   *)
(* File::create, write_all, spawn, wait, remove_file, the random name) are *)
(* nondeterministic choices of the actions.                                *)
(***************************************************************************)
EXTENDS Integers, Sequences, FiniteSets, TLC

(***************************************************************************)
(* Bounds of the model.                                                    *)
(***************************************************************************)
\* longest script text enumerated by SpecTransform
MaxLen == 4
\* number of distinct values thread_rng's 10-character name can take
NumNames == 2
\* longest caller-supplied argument list
MaxArgs == 1
\* largest non-zero exit code a child returns
MaxExitCode == 1

VARIABLES
    windows,    \* cfg!(windows) of the build
    options,    \* the caller's ScriptOptions
    args,       \* the caller's args
    script,     \* the caller's script text
    notText,    \* whether to_str() of the staged PathBuf gives None
    pc,         \* per invocation: position in the pipeline
    op,         \* per invocation: "run" or "spawn"
    updated,    \* per invocation: modify_script's output
    file,       \* per invocation: the path text create_script_file returned
    disk,       \* per invocation: the path File::create was called with
    fs,         \* the staging directory: path -> file
    child,      \* per invocation: the launched process
    command,    \* per invocation: the command handed to Command::spawn
    result,     \* per invocation: the value returned to the caller
    del,        \* per invocation: what remove_file answered
    hist,       \* per invocation: the stages entered, in order
    env         \* per invocation: the operating system's answers, in order,
                \* remove_file's left out

vars == <<windows, options, args, script, notText, pc, op, updated, file,
          disk, fs, child, command, result, del, hist, env>>

(***************************************************************************)
(* Option values: None is the empty tuple, Some(v) the one-element tuple.  *)
(***************************************************************************)
None == <<>>
Some(v) == <<v>>

(***************************************************************************)
(* Text helpers (str::trim, str::split, str::starts_with, Vec::insert,     *)
(* [String]::join) as runner.rs uses them.                                 *)
(***************************************************************************)
Chars == {"#", "!", "\n", "x"}

IsWhitespace(c) == c \in {" ", "\n", "\t", "\r"}

RECURSIVE TrimStart(_)
TrimStart(s) ==
    IF s # <<>> /\ IsWhitespace(Head(s)) THEN TrimStart(Tail(s)) ELSE s

RECURSIVE TrimEnd(_)
TrimEnd(s) ==
    IF s # <<>> /\ IsWhitespace(s[Len(s)])
    THEN TrimEnd(SubSeq(s, 1, Len(s) - 1))
    ELSE s

Trim(s) == TrimEnd(TrimStart(s))

\* str::split("\n"): the pieces between newlines; the empty text gives one
\* empty piece.
RECURSIVE Split(_)
Split(s) ==
    IF \A k \in 1..Len(s) : s[k] # "\n"
    THEN <<s>>
    ELSE LET k == CHOOSE j \in 1..Len(s) :
                      s[j] = "\n" /\ \A h \in 1..(j - 1) : s[h] # "\n"
         IN  <<SubSeq(s, 1, k - 1)>> \o Split(SubSeq(s, k + 1, Len(s)))

StartsWith(s, prefix) ==
    Len(s) >= Len(prefix) /\ SubSeq(s, 1, Len(prefix)) = prefix

\* Vec::insert(index, x) with a 0-based index
Insert(v, index, x) ==
    SubSeq(v, 1, index) \o <<x>> \o SubSeq(v, index + 1, Len(v))

\* [String]::join("\n")
RECURSIVE Join(_)
Join(lines) ==
    IF lines = <<>> THEN <<>>
    ELSE IF Len(lines) = 1 THEN lines[1]
    ELSE lines[1] \o <<"\n">> \o Join(Tail(lines))

SeqsUpTo(S, n) == UNION {[1..k -> S] : k \in 0..n}

(***************************************************************************)
(* Errors: ScriptError { info: ErrorInfo }.                                *)
(***************************************************************************)
IOError(origin) == [kind |-> "Err", info |-> "IOError", origin |-> origin]
Description(msg) == [kind |-> "Err", info |-> "Description", origin |-> msg]
Ok(v) == [kind |-> "Ok", value |-> v]

(***************************************************************************)
(* modify_script.  cwdRes is what current_dir() and to_str() answer:       *)
(* "ok" (the cwd as text), "not_text" (to_str gives None) or "io_error"    *)
(* (current_dir fails).                                                    *)
(***************************************************************************)
Cwd == <<"/", "w">>
SetE == <<"s", "e", "t", " ", "-", "e">>
SetX == <<"s", "e", "t", " ", "-", "x">>
ShebangMark == <<"#", "!">>
CdPrefix == <<"c", "d", " ">>
CwdOutcomes == {"ok", "not_text", "io_error"}

cd_command == CdPrefix \o Cwd

\* faulty variant: the shebang line is not recognised
shebang_index_none(script_lines) == 0

shebang_index(script_lines) ==
    IF Len(script_lines) > 0 /\ StartsWith(script_lines[1], ShebangMark)
    THEN 1 ELSE 0

\* faulty variant: the cd line is inserted before the set lines
modify_lines_cd_first(text, opts, win) ==
    LET script_lines == Split(Trim(text))
        i0 == shebang_index(script_lines)
        withE == IF ~win /\ opts.exit_on_error
                 THEN Insert(script_lines, i0, SetE) ELSE script_lines
        withX == IF ~win /\ opts.print_commands
                 THEN Insert(withE, i0, SetX) ELSE withE
    IN  Append(Insert(withX, i0, cd_command), <<"\n">>)

modify_lines(text, opts, win) ==
    LET script_lines == Split(Trim(text))
        i0 == shebang_index(script_lines)
        withE == IF ~win /\ opts.exit_on_error
                 THEN Insert(script_lines, i0, SetE) ELSE script_lines
        i1 == IF ~win /\ opts.exit_on_error THEN i0 + 1 ELSE i0
        withX == IF ~win /\ opts.print_commands
                 THEN Insert(withE, i1, SetX) ELSE withE
        i2 == IF ~win /\ opts.print_commands THEN i1 + 1 ELSE i1
    IN  Append(Insert(withX, i2, cd_command), <<"\n">>)

modify_script(text, opts, win, cwdRes) ==
    CASE cwdRes = "ok" -> Ok(Join(modify_lines(text, opts, win)))
      [] cwdRes = "not_text" ->
            Description("Unable to extract current working directory path.")
      [] OTHER -> IOError("current_dir")


(***************************************************************************)
(* get_exit_code.  An ExitStatus is its code(): Some(c), or None when the  *)
(* process was ended by a signal; success() is "exited with code 0".       *)
(***************************************************************************)
ExitCodes == 0..MaxExitCode
ExitStatuses == {Some(c) : c \in ExitCodes} \cup {None}

success(status) == status = Some(0)

\* faulty variant: a missing code is reported as success
get_exit_code_nocode(status) ==
    IF status # None THEN status[1] ELSE 0

get_exit_code(status) ==
    IF ~success(status)
    THEN (IF status # None THEN status[1] ELSE -1)
    ELSE 0

(***************************************************************************)
(* The staging directory.  A path is temp_dir/[user/]run_script/ followed  *)
(* by the random name and the platform's extension; only the last part     *)
(* differs between invocations, so it stands for the whole path.           *)
(***************************************************************************)
Invs == {1, 2}
Names == 1..NumNames
ArgVals == {"a"}
Runners == {None, Some("bash")}
\* The pipeline is explored with one script text; SpecTransform covers every
\* text of the transformer.
Scripts == {<<"#", "!", "\n", "x">>}

file_path(n, win) == "n" \o ToString(n) \o (IF win THEN ".bat" ELSE ".sh")

Paths == {file_path(n, windows) : n \in Names}

\* file_path.to_str().unwrap_or("")
file_path_str(path, valid) == IF valid THEN path ELSE ""

NoFile == [owner |-> 0, text |-> <<>>]

Exists(f, path) == path \in DOMAIN f /\ f[path] # NoFile

\* std::fs::remove_file: osOk is the operating system's answer for a file
\* that is there; a path that names no file always fails.
remove_file(f, path, osOk) ==
    IF Exists(f, path) /\ osOk
    THEN [fs |-> [f EXCEPT ![path] = NoFile], ok |-> TRUE]
    ELSE [fs |-> f, ok |-> FALSE]

\* delete_file: remove_file(file).unwrap_or(())
delete_file(f, path, osOk) == remove_file(f, path, osOk).fs

DelAnswer(f, path, osOk) ==
    IF remove_file(f, path, osOk).ok THEN "ok" ELSE "failed"

\* faulty variant: a failed removal replaces the value returned
after_delete_escalate(value, answer) ==
    IF answer = "failed" THEN IOError("remove_file") ELSE value

\* delete_file returns (): the value computed before the call is the value
\* returned after it, whatever remove_file answered.
after_delete(value, answer) == value

(***************************************************************************)
(* create_script_file for invocation i, with the random name already drawn *)
(* (path) and the operating system's answers: out is the first step that   *)
(* fails ("dir", "create", "write") or "ok".                               *)
(***************************************************************************)
StageOutcomes == {"dir", "create", "write", "ok"}

\* faulty variant: a failed write leaves the partially written file
create_script_file_keep(f, i, text, path, valid, out, osOk) ==
    LET str == file_path_str(path, valid)
        created == [f EXCEPT ![path] = [owner |-> i, text |-> <<>>]]
        written == [f EXCEPT ![path] = [owner |-> i, text |-> text]]
    IN  CASE out = "dir" ->
               [fs |-> f, res |-> IOError("create_dir_all"), del |-> "none"]
          [] out = "create" ->
               [fs |-> f, res |-> IOError("File::create"), del |-> "none"]
          [] out = "write" ->
               [fs |-> created, res |-> IOError("write_all"), del |-> "none"]
          [] OTHER ->
               [fs |-> written, res |-> Ok(str), del |-> "none"]

create_script_file(f, i, text, path, valid, out, osOk) ==
    LET str == file_path_str(path, valid)
        created == [f EXCEPT ![path] = [owner |-> i, text |-> <<>>]]
        written == [f EXCEPT ![path] = [owner |-> i, text |-> text]]
    IN  CASE out = "dir" ->
               [fs |-> f, res |-> IOError("create_dir_all"), del |-> "none"]
          [] out = "create" ->
               [fs |-> f, res |-> IOError("File::create"), del |-> "none"]
          [] out = "write" ->
               [fs |-> delete_file(created, str, osOk),
                res |-> after_delete(IOError("write_all"),
                                     DelAnswer(created, str, osOk)),
                del |-> DelAnswer(created, str, osOk)]
          [] OTHER ->
               [fs |-> written, res |-> Ok(str), del |-> "none"]

(***************************************************************************)
(* The command spawn_script builds (lines 196-215).                        *)
(***************************************************************************)
interpreter(opts, win) ==
    IF opts.runner # None THEN opts.runner[1]
    ELSE IF win THEN "cmd.exe" ELSE "sh"

\* faulty variant: the caller's args come before the staged path
all_args_front(win, path, callerArgs) ==
    callerArgs \o (IF win THEN <<"/C", path>> ELSE <<path>>)

all_args(win, path, callerArgs) ==
    (IF win THEN <<"/C", path>> ELSE <<path>>) \o callerArgs

create_command_builder(command_string, arguments) ==
    [program |-> command_string, args |-> arguments]

spawn_command(opts, win, path, callerArgs) ==
    create_command_builder(interpreter(opts, win),
                           all_args(win, path, callerArgs))

(***************************************************************************)
(* State of the invocations.                                               *)
(***************************************************************************)
NoCommand == [program |-> "", args |-> <<>>]
NoChild == [state |-> "none", status |-> None]
NoResult == [kind |-> "None"]
Handle(i) == [kind |-> "Child", handle |-> i]
Triple(code, out, err) ==
    [kind |-> "Triple", code |-> code, stdout |-> out, stderr |-> err]

OptionValues ==
    [runner : Runners, exit_on_error : BOOLEAN, print_commands : BOOLEAN]

InitInvocations ==
    /\ pc = [i \in Invs |-> "idle"]
    /\ op = [i \in Invs |-> "none"]
    /\ updated = [i \in Invs |-> <<>>]
    /\ file = [i \in Invs |-> ""]
    /\ disk = [i \in Invs |-> ""]
    /\ fs = [p \in Paths |-> NoFile]
    /\ child = [i \in Invs |-> NoChild]
    /\ command = [i \in Invs |-> NoCommand]
    /\ result = [i \in Invs |-> NoResult]
    /\ del = [i \in Invs |-> "none"]
    /\ hist = [i \in Invs |-> <<>>]
    /\ env = [i \in Invs |-> <<>>]

Init ==
    /\ windows \in BOOLEAN
    /\ options \in OptionValues
    /\ args \in SeqsUpTo(ArgVals, MaxArgs)
    /\ script \in Scripts
    /\ notText \in BOOLEAN
    /\ InitInvocations

inputs == <<windows, options, args, script, notText>>

(***************************************************************************)
(* The caller enters run or spawn.                                         *)
(***************************************************************************)
Call(i) ==
    /\ pc[i] = "idle"
    /\ \E o \in {"run", "spawn"} : op' = [op EXCEPT ![i] = o]
    /\ pc' = [pc EXCEPT ![i] = "called"]
    /\ UNCHANGED <<inputs, updated, file, disk, fs, child, command, result, del,
                   hist, env>>

(***************************************************************************)
(* spawn_script line 193: modify_script; its error is returned as it is    *)
(* (line 234, then run line 291 / spawn line 254).                         *)
(***************************************************************************)
Transform(i) ==
    /\ pc[i] = "called"
    /\ \E cwdRes \in CwdOutcomes :
         LET r == modify_script(script, options, windows, cwdRes)
         IN  /\ IF r.kind = "Ok"
                THEN /\ updated' = [updated EXCEPT ![i] = r.value]
                     /\ pc' = [pc EXCEPT ![i] = "transformed"]
                     /\ UNCHANGED result
                ELSE /\ result' = [result EXCEPT ![i] = r]
                     /\ pc' = [pc EXCEPT ![i] = "returned"]
                     /\ UNCHANGED updated
             /\ env' = [env EXCEPT ![i] = Append(@, cwdRes)]
    /\ hist' = [hist EXCEPT ![i] = Append(@, "transform")]
    /\ UNCHANGED <<inputs, op, file, disk, fs, child, command, del>>

(***************************************************************************)
(* spawn_script line 194: create_script_file; its error is wrapped in      *)
(* IOError (lines 230-232).                                                *)
(***************************************************************************)
\* faulty variant: spawn_script goes on to launch after a staging error
after_stage_always(res) == "staged"

\* lines 194-195, 230-232: go on with Ok(file), return on Err
after_stage(res) == IF res.kind = "Ok" THEN "staged" ELSE "returned"

Stage(i) ==
    /\ pc[i] = "transformed"
    /\ \E n \in Names, out \in StageOutcomes, osOk \in BOOLEAN :
         LET path == file_path(n, windows)
             r == create_script_file(fs, i, updated[i], path, ~notText,
                                     out, osOk)
         IN  /\ fs' = r.fs
             /\ del' = [del EXCEPT ![i] = r.del]
             /\ pc' = [pc EXCEPT ![i] = after_stage(r.res)]
             /\ IF r.res.kind = "Ok"
                THEN /\ file' = [file EXCEPT ![i] = r.res.value]
                     /\ disk' = [disk EXCEPT ![i] = path]
                     /\ UNCHANGED result
                ELSE /\ result' = [result EXCEPT ![i] = r.res]
                     /\ UNCHANGED <<file, disk>>
             /\ env' = [env EXCEPT ![i] = Append(@, out)]
    /\ hist' = [hist EXCEPT ![i] = Append(@, "stage")]
    /\ UNCHANGED <<inputs, op, updated, child, command>>

(***************************************************************************)
(* spawn_script lines 196-228: build the command and spawn it.  On success *)
(* spawn returns the child alone (line 253) and run goes on to wait; on    *)
(* failure the staged path is deleted and the error returned.              *)
(***************************************************************************)
\* faulty variant: a failed launch leaves the staged file
launch_fs_keep(f, path, spawned, osOk) == f

launch_fs(f, path, spawned, osOk) ==
    IF spawned THEN f ELSE delete_file(f, path, osOk)

\* faulty variant: a failed launch is reported as a Description error
launch_result_desc(i, spawned) ==
    IF spawned THEN Handle(i) ELSE Description("spawn")

launch_result(i, spawned) ==
    IF spawned THEN Handle(i) ELSE IOError("spawn")

\* faulty variant: run returns right after the launch, as spawn does
after_launch_return(o, spawned) == "returned"

\* run waits for the child it launched (line 274); spawn returns it (line
\* 253); an error of the launch is returned by both (lines 254, 291)
after_launch(o, spawned) ==
    IF spawned /\ o = "run" THEN "waiting" ELSE "returned"

Launch(i) ==
    /\ pc[i] = "staged"
    /\ \E spawned \in BOOLEAN, osOk \in BOOLEAN :
         /\ command' = [command EXCEPT
                          ![i] = spawn_command(options, windows, file[i], args)]
         /\ fs' = launch_fs(fs, file[i], spawned, osOk)
         /\ del' = [del EXCEPT ![i] = IF spawned THEN "none"
                                      ELSE DelAnswer(fs, file[i], osOk)]
         /\ child' = [child EXCEPT ![i] = IF spawned
                                          THEN [state |-> "running", status |-> None]
                                          ELSE NoChild]
         /\ pc' = [pc EXCEPT ![i] = after_launch(op[i], spawned)]
         /\ IF after_launch(op[i], spawned) = "waiting"
            THEN UNCHANGED result
            ELSE result' = [result EXCEPT
                   ![i] = IF spawned THEN launch_result(i, spawned)
                          ELSE after_delete(launch_result(i, spawned),
                                            DelAnswer(fs, file[i], osOk))]
         /\ env' = [env EXCEPT ![i] = Append(@, IF spawned THEN "spawned"
                                                ELSE "spawn_error")]
    /\ hist' = [hist EXCEPT ![i] = Append(@, "launch")]
    /\ UNCHANGED <<inputs, op, updated, file, disk>>

(***************************************************************************)
(* The launched process terminates (the operating system's step).          *)
(***************************************************************************)
ChildExit(i) ==
    /\ child[i].state = "running"
    /\ \E st \in ExitStatuses :
         child' = [child EXCEPT ![i] = [state |-> "exited", status |-> st]]
    /\ UNCHANGED <<inputs, pc, op, updated, file, disk, fs, command, result, del,
                   hist, env>>

(***************************************************************************)
(* run lines 274-289: wait_with_output blocks until the child has           *)
(* terminated and then returns the output or an error; the staged path is  *)
(* deleted, and the outcome of the wait is returned.                       *)
(***************************************************************************)
\* faulty variant: run returns without deleting the staged file
wait_fs_keep(f, path, osOk) == f

wait_fs(f, path, osOk) == delete_file(f, path, osOk)

\* faulty variant: a failed wait gives a triple without the child's status
run_result_partial(waited, status) ==
    Triple(IF waited THEN get_exit_code(status) ELSE -1, "stdout", "stderr")

\* faulty variant: a failed wait is reported as a Description error
run_result_desc(waited, status) ==
    IF waited
    THEN Triple(get_exit_code(status), "stdout", "stderr")
    ELSE Description("wait")

run_result(waited, status) ==
    IF waited
    THEN Triple(get_exit_code(status), "stdout", "stderr")
    ELSE IOError("wait")

\* faulty variant: the wait answers while the child is still running
wait_ready_any(c) == c.state # "none"

\* wait_with_output (line 274) blocks until the child has terminated; it
\* has no timeout and nothing cancels it
wait_ready(c) == c.state = "exited"

Wait(i) ==
    /\ pc[i] = "waiting"
    /\ wait_ready(child[i])
    /\ \E waited \in BOOLEAN, osOk \in BOOLEAN :
         /\ fs' = wait_fs(fs, file[i], osOk)
         /\ del' = [del EXCEPT ![i] = DelAnswer(fs, file[i], osOk)]
         /\ result' = [result EXCEPT
                ![i] = after_delete(run_result(waited, child[i].status),
                                    DelAnswer(fs, file[i], osOk))]
         /\ pc' = [pc EXCEPT ![i] = "returned"]
         /\ env' = [env EXCEPT ![i] = Append(@, IF waited THEN "waited"
                                                ELSE "wait_error")]
    /\ hist' = [hist EXCEPT ![i] = Append(@, "collect")]
    /\ UNCHANGED <<inputs, op, updated, file, disk, child, command>>

Next ==
    \E i \in Invs :
        \/ Call(i)
        \/ Transform(i)
        \/ Stage(i)
        \/ Launch(i)
        \/ ChildExit(i)
        \/ Wait(i)

Spec == Init /\ [][Next]_vars

(***************************************************************************)
(* Two invocations on the default options and no arguments (the command    *)
(* line plays no part in when run returns), under the scheduling of the    *)
(* code: run's thread is blocked in wait_with_output and goes on once the  *)
(* child has terminated, so the collection step is not postponed forever.  *)
(* Nothing makes a child terminate, so ChildExit has no fairness.          *)
(***************************************************************************)
InitFair ==
    /\ windows \in BOOLEAN
    /\ options = [runner |-> None, exit_on_error |-> FALSE,
                  print_commands |-> FALSE]
    /\ args = <<>>
    /\ script \in Scripts
    /\ notText \in BOOLEAN
    /\ InitInvocations

SpecFair == InitFair /\ [][Next]_vars /\ \A i \in Invs : WF_vars(Wait(i))

(***************************************************************************)
(* The transformer alone, over every script text up to MaxLen characters.  *)
(***************************************************************************)
InitTransform ==
    /\ windows \in BOOLEAN
    /\ options \in OptionValues
    /\ args = <<>>
    /\ script \in SeqsUpTo(Chars, MaxLen)
    /\ notText = FALSE
    /\ InitInvocations

NextTransform == Call(1) \/ Transform(1)

SpecTransform == InitTransform /\ [][NextTransform]_vars


(***************************************************************************)
(* Vocabulary of the properties.                                           *)
(***************************************************************************)
\* invocation i staged a file (create_script_file returned Ok)
Staged(i) == disk[i] # ""

\* the file invocation i wrote is on disk
OwnFile(i) == Staged(i) /\ Exists(fs, disk[i]) /\ fs[disk[i]].owner = i

\* the launch of invocation i failed
LaunchFailed(i) ==
    pc[i] = "returned" /\ command[i] # NoCommand /\ child[i] = NoChild

\* spawn returned a handle
Spawned(i) == op[i] = "spawn" /\ result[i] = Handle(i)

\* between successful staging and the end of the launched process
InInterval(i) == pc[i] = "staged" \/ child[i].state = "running"

FailedStage(i) == hist[i][Len(hist[i])]

(***************************************************************************)
(* C1 as stated: when a run that staged a file returns, the staged file is *)
(* not on disk (here already for a staged path that converts to text, so   *)
(* that remove_file is called on the path of the file).                    *)
(***************************************************************************)
RunReturnsFileGone ==
    [][\A i \in Invs :
          (op[i] = "run" /\ Staged(i) /\ ~notText /\ pc[i] # "returned"
           /\ pc'[i] = "returned")
          => ~Exists(fs', disk[i])]_vars

(***************************************************************************)
(* C1, amended: a run that staged a file has called remove_file on the     *)
(* path the stager returned when it returns, and the staged file is not on *)
(* disk at that moment whenever that removal succeeded.                    *)
(***************************************************************************)
RunReturnsAfterDelete ==
    [][\A i \in Invs :
          (op[i] = "run" /\ Staged(i) /\ pc[i] # "returned"
           /\ pc'[i] = "returned")
          => /\ del'[i] # "none"
             /\ del'[i] = "ok" => ~Exists(fs', disk[i])]_vars

RunReturnsAfterDelete_witness ==
    \E i \in Invs :
        /\ op[i] = "run" /\ Staged(i) /\ pc[i] = "returned"
        /\ result[i].kind = "Triple"
        /\ del[i] = "ok" /\ ~Exists(fs, disk[i])

(***************************************************************************)
(* C2 as stated: once the process of an invocation has terminated, or its  *)
(* launch has failed, the invocation's staged file is not on disk (here    *)
(* already for the states where run or spawn has returned and no removal   *)
(* has failed).                                                            *)
(***************************************************************************)
NoFileAfterTermination ==
    \A i \in Invs :
        (/\ pc[i] = "returned" /\ del[i] # "failed"
         /\ (child[i].state = "exited" \/ LaunchFailed(i)))
        => ~OwnFile(i)

(***************************************************************************)
(* C2, amended: once an invocation whose launch failed, or a run that      *)
(* waited, has returned and its removal of the staged path succeeded, the  *)
(* invocation's staged file is not on disk.  (A successful spawn does not  *)
(* delete the file; a failed removal leaves it.)                           *)
(***************************************************************************)
NoFileAfterCleanup ==
    \A i \in Invs :
        (/\ pc[i] = "returned" /\ Staged(i)
         /\ (op[i] = "run" \/ LaunchFailed(i))
         /\ del[i] = "ok")
        => ~OwnFile(i)

NoFileAfterCleanup_witness ==
    \E i \in Invs :
        /\ op[i] = "spawn" /\ LaunchFailed(i) /\ Staged(i)
        /\ del[i] = "ok" /\ ~OwnFile(i)
        /\ \E j \in Invs : Spawned(j) /\ child[j].state = "exited" /\ OwnFile(j)

(***************************************************************************)
(* C3 as stated: after a successful spawn the staged file is on disk, when *)
(* spawn returns and ever after.                                           *)
(***************************************************************************)
SpawnLeavesFile ==
    \A i \in Invs : (Spawned(i) /\ Staged(i)) => Exists(fs, disk[i])

(***************************************************************************)
(* C4 as stated: when the launch failed, the staged file is deleted, the   *)
(* error is IOError of the launch, and no handle is returned (here already *)
(* for a staged path that converts to text).                               *)
(***************************************************************************)
LaunchFailureDeletes ==
    [][\A i \in Invs :
          (pc[i] = "staged" /\ ~notText /\ pc'[i] = "returned"
           /\ child'[i] = NoChild)
          => /\ ~Exists(fs', disk[i])
             /\ result'[i] = IOError("spawn")]_vars

(***************************************************************************)
(* C4, amended: when the launch failed, in run and in spawn, remove_file   *)
(* has been called on the staged path before the error is returned (the    *)
(* file is gone whenever that removal succeeded), the error is IOError of  *)
(* the launch, and no handle is returned.                                  *)
(***************************************************************************)
LaunchFailureCleansUp ==
    [][\A i \in Invs :
          (pc[i] = "staged" /\ pc'[i] = "returned" /\ child'[i] = NoChild)
          => /\ del'[i] # "none"
             /\ del'[i] = "ok" => ~Exists(fs', disk[i])
             /\ result'[i] = IOError("spawn")
             /\ result'[i] # Handle(i)]_vars

LaunchFailureCleansUp_witness ==
    \E i \in Invs :
        /\ op[i] = "run" /\ LaunchFailed(i) /\ del[i] = "ok"
        /\ result[i] = IOError("spawn") /\ ~Exists(fs, disk[i])
        /\ \E j \in Invs : op[j] = "spawn" /\ LaunchFailed(j)

(***************************************************************************)
(* C5 as stated: with options.runner set, the command is the runner and    *)
(* its first argument is the staged path, followed by the caller's args.   *)
(***************************************************************************)
RunnerGetsPathFirst ==
    \A i \in Invs :
        (command[i] # NoCommand /\ options.runner # None)
        => /\ command[i].program = options.runner[1]
           /\ command[i].args = <<file[i]>> \o args

HasShebang(text) == StartsWith(Trim(text), ShebangMark)

CdPositions(lines) == {k \in 1..Len(lines) : lines[k] = cd_command}

ShebangStaysFirst ==
    \A i \in Invs :
        (pc[i] = "transformed" /\ HasShebang(script))
        => LET out == Split(updated[i])
           IN  /\ out[1] = Split(Trim(script))[1]
               /\ CdPositions(out) # {}
               /\ \A k \in CdPositions(out) : k > 1

ShebangStaysFirst_witness ==
    \E i \in Invs :
        /\ pc[i] = "transformed" /\ HasShebang(script)
        /\ Len(Split(Trim(script))) > 1
        /\ options.exit_on_error /\ options.print_commands /\ ~windows
        /\ Split(updated[i])[4] = cd_command

(***************************************************************************)
(* C8 as stated: the transformation stage fails only with Description, and *)
(* an IOError comes only from directory creation, file write, process      *)
(* spawn or process wait.                                                  *)
(***************************************************************************)
ErrorOriginsAsStated ==
    \A i \in Invs :
        result[i].kind = "Err"
        => /\ FailedStage(i) = "transform" => result[i].info = "Description"
           /\ result[i].info = "IOError"
              => result[i].origin \in {"create_dir_all", "write_all", "spawn", "wait"}

(***************************************************************************)
(* C8, amended: there are two error kinds.  The transformation stage fails *)
(* with Description when the current directory is not valid text and with  *)
(* IOError when current_dir itself fails; Description has no other origin; *)
(* every other IOError comes from directory creation, file creation, file  *)
(* write (staging), process spawn (launch) or process wait (collection).   *)
(***************************************************************************)
ErrorOrigins ==
    \A i \in Invs :
        result[i].kind = "Err"
        => /\ result[i].info \in {"IOError", "Description"}
           /\ result[i].info = "Description" <=>
                 (FailedStage(i) = "transform" /\ result[i] # IOError("current_dir"))
           /\ FailedStage(i) = "transform" /\ result[i].info = "IOError"
                 => result[i].origin = "current_dir"
           /\ FailedStage(i) = "stage"
                 => result[i].origin \in {"create_dir_all", "File::create", "write_all"}
           /\ FailedStage(i) = "launch" => result[i].origin = "spawn"
           /\ FailedStage(i) = "collect" => result[i].origin = "wait"

ErrorOrigins_witness ==
    \E i \in Invs :
        /\ result[i] = IOError("current_dir") /\ FailedStage(i) = "transform"
        /\ \E j \in Invs : result[j].kind = "Err" /\ result[j].info = "Description"

(***************************************************************************)
(* C9: the exit code run returns is 0 when the child succeeded, the        *)
(* child's code when it failed with a code, and -1 when it failed without  *)
(* a code.                                                                 *)
(***************************************************************************)
ExitCodeNormalized ==
    \A i \in Invs :
        result[i].kind = "Triple"
        => LET st == child[i].status
           IN  /\ child[i].state = "exited"
               /\ st = Some(0) => result[i].code = 0
               /\ (st # None /\ st # Some(0)) => result[i].code = st[1]
               /\ st = None => result[i].code = -1

ExitCodeNormalized_witness ==
    \E i, j \in Invs :
        /\ result[i].kind = "Triple" /\ child[i].status = None
        /\ result[i].code = -1
        /\ result[j].kind = "Triple" /\ child[j].status = Some(1)
        /\ result[j].code = 1

(***************************************************************************)
(* C10 as stated: two invocations never use the same staged path, and no   *)
(* invocation's staged file is overwritten or deleted by another one       *)
(* between its staging and the end of its own process.                     *)
(***************************************************************************)
\* invocation i has not itself removed its staged path
NotSelfDeleted(i) == del[i] = "none"

NoPathCollision ==
    \A i \in Invs :
        InInterval(i)
        => /\ NotSelfDeleted(i) => OwnFile(i)
           /\ \A j \in Invs \ {i} : InInterval(j) => disk[j] # disk[i]


(***************************************************************************)
(* C11 as stated: when the wait fails, run returns IOError of the wait and *)
(* the staged file has been deleted (here already for a staged path that   *)
(* converts to text).                                                      *)
(***************************************************************************)
WaitFailureFileGone ==
    [][\A i \in Invs :
          (/\ pc[i] = "waiting" /\ pc'[i] = "returned" /\ ~notText
           /\ env'[i][Len(env'[i])] = "wait_error")
          => /\ result'[i] = IOError("wait")
             /\ ~Exists(fs', disk[i])]_vars

(***************************************************************************)
(* C11, amended: run calls remove_file on the path the stager returned     *)
(* after the wait and before it looks at the wait's outcome (the file is   *)
(* gone whenever that removal succeeded).  When the wait failed run        *)
(* returns IOError of the wait, never a triple; when it succeeded run      *)
(* returns the complete triple.  Every run call returns either a complete  *)
(* triple or one error.                                                    *)
(***************************************************************************)
CompleteTriple(r) ==
    /\ r.kind = "Triple"
    /\ DOMAIN r = {"kind", "code", "stdout", "stderr"}
    /\ r.code \in Int

RunCollects ==
    [][\A i \in Invs :
          /\ (pc[i] = "waiting" /\ pc'[i] = "returned")
             => /\ del'[i] # "none"
                /\ del'[i] = "ok" => ~Exists(fs', disk[i])
                /\ env'[i][Len(env'[i])] = "wait_error"
                      => result'[i] = IOError("wait")
                /\ env'[i][Len(env'[i])] = "waited"
                      => CompleteTriple(result'[i])
          /\ (op[i] = "run" /\ pc[i] # "returned" /\ pc'[i] = "returned")
             => (CompleteTriple(result'[i]) \/ result'[i].kind = "Err")]_vars

RunCollects_witness ==
    \E i, j \in Invs :
        /\ op[i] = "run" /\ result[i] = IOError("wait")
        /\ del[i] = "ok" /\ ~Exists(fs, disk[i])
        /\ op[j] = "run" /\ CompleteTriple(result[j]) /\ del[j] = "failed"

(***************************************************************************)
(* C12 as stated: from successful staging until the launched process       *)
(* terminates (or the launch fails) the staged file of the invocation is   *)
(* on disk with the transformed text as content.                           *)
(***************************************************************************)
StagedFileKept ==
    \A i \in Invs :
        InInterval(i) => (OwnFile(i) /\ fs[disk[i]].text = updated[i])

(***************************************************************************)
(* C13: the transformed script has a fixed layout.  With L the lines of    *)
(* the trimmed input, the output is the lines [L[1] if it begins with      *)
(* "#!"], ["set -e" if exit_on_error and not Windows], ["set -x" if        *)
(* print_commands and not Windows], ["cd <cwd>"], the remaining lines of L *)
(* in order, and a trailing blank line.  On Windows no set line is         *)
(* inserted, the cd line still is; exactly one cd line is inserted.        *)
(***************************************************************************)
\* the text whose lines are ls, each line ended by a newline
RECURSIVE Unlines(_)
Unlines(ls) ==
    IF ls = <<>> THEN <<>> ELSE ls[1] \o <<"\n">> \o Unlines(Tail(ls))

Layout(text, opts, win) ==
    LET L == Split(Trim(text))
        sb == StartsWith(L[1], ShebangMark)
    IN  (IF sb THEN <<L[1]>> ELSE <<>>)
        \o (IF opts.exit_on_error /\ ~win THEN <<SetE>> ELSE <<>>)
        \o (IF opts.print_commands /\ ~win THEN <<SetX>> ELSE <<>>)
        \o <<cd_command>>
        \o (IF sb THEN Tail(L) ELSE L)
        \o << <<>> >>

TransformedLayout ==
    \A i \in Invs :
        pc[i] = "transformed"
        => LET out == Split(updated[i])
           IN  /\ updated[i] = Unlines(Layout(script, options, windows))
               /\ Cardinality(CdPositions(out)) = 1
               /\ windows => \A k \in 1..Len(out) : out[k] \notin {SetE, SetX}

TransformedLayout_witness ==
    \E i \in Invs :
        /\ pc[i] = "transformed" /\ ~windows
        /\ options.exit_on_error /\ options.print_commands
        /\ script = <<"#", "!", "\n", "x">>
        /\ Split(updated[i]) =
              << <<"#", "!">>, SetE, SetX, cd_command, <<"x">>, <<>>, <<>> >>

(***************************************************************************)
(* The state of the per-invocation state machine invocation i is in: the   *)
(* last state it reached.  A failed transformation leaves it in Created, a *)
(* failed staging in Transformed; the end of the collection (wait and      *)
(* delete_file, whatever the wait answered) is Completed.                  *)
(***************************************************************************)
PipelineState(i) ==
    CASE hist[i] = <<>> -> "Created"
      [] FailedStage(i) = "transform" ->
            IF pc[i] = "transformed" THEN "Transformed" ELSE "Created"
      [] FailedStage(i) = "stage" ->
            IF pc[i] = "staged" THEN "Staged" ELSE "Transformed"
      [] FailedStage(i) = "launch" ->
            IF child[i] = NoChild THEN "LaunchFailed"
            ELSE IF pc[i] = "waiting" THEN "Launched" ELSE "Running"
      [] OTHER -> "Completed"

(***************************************************************************)
(* C14 as stated: every run call, for every outcome of transformation,     *)
(* staging, launch and wait, ends in Completed or LaunchFailed.            *)
(***************************************************************************)
RunEndsCompletedOrLaunchFailed ==
    \A i \in Invs :
        (op[i] = "run" /\ pc[i] = "returned")
        => PipelineState(i) \in {"Completed", "LaunchFailed"}

(***************************************************************************)
(* C14, amended: a run call whose launch was attempted ends in Completed   *)
(* (waited, delete_file called) or LaunchFailed (delete_file called) and   *)
(* never in Staged, Launched or Running; a run call whose transformation   *)
(* failed ends in Created and one whose staging failed ends in             *)
(* Transformed, both with the error as result and no launch.  Running is   *)
(* where a successful spawn call ends.                                     *)
(***************************************************************************)
RunTerminalStates ==
    \A i \in Invs :
        /\ (op[i] = "run" /\ pc[i] = "returned")
           => /\ PipelineState(i) \in
                    {"Completed", "LaunchFailed", "Created", "Transformed"}
              /\ command[i] # NoCommand
                    => /\ PipelineState(i) \in {"Completed", "LaunchFailed"}
                       /\ del[i] # "none"
              /\ PipelineState(i) \in {"Created", "Transformed"}
                    => /\ result[i].kind = "Err"
                       /\ command[i] = NoCommand /\ child[i] = NoChild
              /\ PipelineState(i) = "Completed" => child[i].state = "exited"
        /\ (op[i] = "spawn" /\ pc[i] = "returned" /\ result[i].kind # "Err")
           => PipelineState(i) = "Running"

RunTerminalStates_witness ==
    \E i, j \in Invs :
        /\ op[i] = "run" /\ pc[i] = "returned" /\ PipelineState(i) = "Completed"
        /\ del[i] = "failed"
        /\ op[j] = "run" /\ pc[j] = "returned" /\ PipelineState(j) = "Transformed"

(***************************************************************************)
(* C15: within one invocation the stages happen in the order transform,    *)
(* stage, launch, collect, each only after the previous one succeeded: no  *)
(* file is created when the transformation failed, no process is launched  *)
(* when staging failed, and run neither waits nor deletes before the       *)
(* launch attempt.                                                         *)
(***************************************************************************)
StageOrder == <<"transform", "stage", "launch", "collect">>

\* the stages invocation i has gone through are the first ones of StageOrder
InOrder(i) ==
    /\ Len(hist[i]) <= Len(StageOrder)
    /\ hist[i] = SubSeq(StageOrder, 1, Len(hist[i]))
    /\ Len(env[i]) = Len(hist[i])

StagesInOrder ==
    \A i \in Invs :
        /\ InOrder(i)
        /\ Len(hist[i]) >= 2 => env[i][1] = "ok"
        /\ Len(hist[i]) >= 3 => env[i][2] = "ok"
        /\ Len(hist[i]) >= 4 => (env[i][3] = "spawned" /\ op[i] = "run")
        /\ (Len(env[i]) >= 1 /\ env[i][1] # "ok")
              => /\ ~Staged(i) /\ file[i] = ""
                 /\ \A p \in Paths : fs[p].owner # i
        /\ (Len(env[i]) >= 2 /\ env[i][2] # "ok")
              => (command[i] = NoCommand /\ child[i] = NoChild)
        /\ Len(hist[i]) < 3
              => /\ child[i] = NoChild
                 /\ del[i] # "none" => result[i] = IOError("write_all")

StagesInOrder_witness ==
    \E i, j \in Invs :
        /\ hist[i] = StageOrder /\ pc[i] = "returned"
        /\ env[j] = <<"ok", "write">> /\ pc[j] = "returned"
        /\ command[j] = NoCommand /\ del[j] = "failed"

(***************************************************************************)
(* C16 as stated: when staging fails, no staged file of that invocation    *)
(* remains.                                                                *)
(***************************************************************************)
\* staging of invocation i failed
StagingFailed(i) == Len(env[i]) = 2 /\ env[i][2] # "ok"

\* a file written by invocation i is on disk
LeftFile(i) == \E p \in Paths : Exists(fs, p) /\ fs[p].owner = i

NoFileAfterFailedStaging ==
    \A i \in Invs : (StagingFailed(i) /\ ~notText) => ~LeftFile(i)

(***************************************************************************)
(* C16, amended: when directory creation or file creation fails, no file   *)
(* was created and nothing is deleted; when writing the text fails,        *)
(* delete_file is called on the returned path before the IOError is        *)
(* returned, and no file of the invocation remains whenever that removal   *)
(* succeeded.  In all three cases the original error is returned           *)
(* unchanged, also when the deletion fails.                                *)
(***************************************************************************)
StagingError(out) ==
    CASE out = "dir" -> IOError("create_dir_all")
      [] out = "create" -> IOError("File::create")
      [] OTHER -> IOError("write_all")

FailedStagingCleansUp ==
    \A i \in Invs :
        StagingFailed(i)
        => /\ pc[i] = "returned"
           /\ result[i] = StagingError(env[i][2])
           /\ env[i][2] \in {"dir", "create"}
                 => (del[i] = "none" /\ ~LeftFile(i))
           /\ env[i][2] = "write"
                 => /\ del[i] \in {"ok", "failed"}
                    /\ del[i] = "ok" => ~LeftFile(i)

FailedStagingCleansUp_witness ==
    \E i, j \in Invs :
        /\ StagingFailed(i) /\ env[i][2] = "write" /\ ~notText
        /\ del[i] = "failed" /\ LeftFile(i) /\ result[i] = IOError("write_all")
        /\ StagingFailed(j) /\ env[j][2] = "write" /\ del[j] = "ok"
        /\ result[j] = IOError("write_all")

(***************************************************************************)
(* C17: deletion failures are never reported.  Two executions of run (or   *)
(* of spawn) on the same inputs that get the same answers from the         *)
(* operating system except for the removals of the staged file return the  *)
(* same value: the same triple, or the same error kind and underlying      *)
(* error.  The two invocations of the model are the two executions.        *)
(***************************************************************************)
\* what the caller of invocation i gets, a child handle taken as a handle
Returned(i) ==
    IF result[i].kind = "Child" THEN [kind |-> "Child"] ELSE result[i]

\* i and j differ at most in the answers of remove_file
SameButDeletion(i, j) ==
    /\ pc[i] = "returned" /\ pc[j] = "returned"
    /\ op[i] = op[j]
    /\ env[i] = env[j]
    /\ op[i] = "run" => child[i].status = child[j].status

DeletionNeverReported ==
    \A i, j \in Invs : SameButDeletion(i, j) => Returned(i) = Returned(j)

DeletionNeverReported_witness ==
    \E i, j \in Invs :
        /\ SameButDeletion(i, j) /\ op[i] = "run"
        /\ del[i] = "ok" /\ del[j] = "failed"
        /\ result[i].kind = "Triple" /\ result[j] = result[i]

Blocked(i) ==
    /\ result[i].kind = "Triple" => child[i].state = "exited"
    /\ (op[i] = "run" /\ child[i].state = "running")
          => (pc[i] = "waiting" /\ result[i] = NoResult /\ del[i] = "none")
    /\ (op[i] = "run" /\ pc[i] = "returned" /\ child[i] # NoChild)
          => /\ child[i].state = "exited"
             /\ del[i] # "none"
             /\ del[i] = "ok" => ~OwnFile(i)

ReturnedPathIsFilePath ==
    \A i \in Invs :
        Staged(i)
        => /\ file[i] = disk[i]
           /\ command[i] # NoCommand
                 => command[i].args[IF windows THEN 2 ELSE 1] = disk[i]

=============================================================================
